---- MODULE Spec2Model ----
(***************************************************************************)
(* Model of volatility3/framework/plugins/windows/pedump.py (class PEDump). *)
(*                                                                         *)
(* The plugin's result generator (_generator) is run by a consumer that    *)
(* pulls rows one at a time.  The generator validates the configuration,   *)
(* picks _dump_kernel or _dump_processes, and for every target calls       *)
(* _write_pe, which opens an output handle, walks the (offset, data)       *)
(* instructions of dos_header.reconstruct() with seek/write, closes the    *)
(* handle and returns its preferred file name.                             *)
(*                                                                         *)
(* Collaborators that live outside pedump.py (PsList, Modules, the PE      *)
(* extension's reconstruct, the file handler) are modelled by their        *)
(* documented contract.                                                    *)
(***************************************************************************)
EXTENDS Integers, Sequences, FiniteSets, TLC

VARIABLES
    config,          \* self.config: kernel_module, pid, base
    procs,           \* the memory image's process list (what PsList walks)
    pc,              \* position of the generator
    method,          \* _generator's local `method`
    session_layers,  \* _generator's local `session_layers`
    enumerated,      \* which collaborator enumerations have been called
    plist,           \* the processes list_processes yields (after filter_func)
    idx,             \* position of the for loop of _dump_processes in plist
    cur,             \* the running _write_pe frame
    handles,         \* every handle self.open() has returned, in order
    attempts,        \* the calls of _write_pe, in order
    returns,         \* the values those calls returned, in order
    results,         \* the rows handed to the consumer, in order
    log              \* number of vollog entries per level

vars == <<config, procs, pc, method, session_layers, enumerated, plist, idx,
          cur, handles, attempts, returns, results, log>>

----------------------------------------------------------------------------
(* Bounds of the model *)

MaxProcs == 2
MaxSessions == 3
MaxPos == 3

\* _dump_kernel: system_pid = 4
system_pid == 4

----------------------------------------------------------------------------
(* Python values *)

\* None and the empty string are both falsy; a file name is a non-empty
\* sequence of characters, so None is modelled by the empty sequence.
None == <<>>

\* truthiness of self.config["pid"]: falsy when absent (None) or empty
Truthy(pid) == pid.given /\ pid.ids # {}

Max(a, b) == IF a >= b THEN a ELSE b

----------------------------------------------------------------------------
(* String formatting used for the output name *)

HexDigit(d) ==
    <<"0", "1", "2", "3", "4", "5", "6", "7", "8", "9",
      "a", "b", "c", "d", "e", "f">>[d + 1]

RECURSIVE HexDigits(_)
HexDigits(n) ==
    IF n < 16 THEN <<HexDigit(n)>>
    ELSE Append(HexDigits(n \div 16), HexDigit(n % 16))

\* "{:#x}".format(n), n >= 0
FormatHex(n) == <<"0", "x">> \o HexDigits(n)

RECURSIVE FormatDec(_)
\* "{:d}".format(n), n >= 0
FormatDec(n) ==
    IF n < 10 THEN <<HexDigit(n)>>
    ELSE Append(FormatDec(n \div 10), HexDigit(n % 10))

\* a plausible slip: the process offset left out of the name
OutputName_NoOffset(proc_offset, pid, base) ==
    <<"P", "E", ".">> \o FormatDec(pid) \o <<".">> \o FormatHex(base)
        \o <<".", "d", "m", "p">>

\* "PE.{:#x}.{:d}.{:#x}.dmp".format(proc_offset, pid, self.config["base"])
OutputName(proc_offset, pid, base) ==
    <<"P", "E", ".">> \o FormatHex(proc_offset) \o <<".">> \o FormatDec(pid)
        \o <<".">> \o FormatHex(base) \o <<".", "d", "m", "p">>

----------------------------------------------------------------------------
(* The output sink (file handler) *)

\* self.open(name): a fresh, empty, open handle positioned at 0.
\* `writes` is the sink's record of the write calls it has served.
open(name) ==
    [preferred_filename |-> name, pos |-> 0, data |-> <<>>,
     closed |-> FALSE, writes |-> <<>>]

\* file_handle.seek(offset)
seek(h, offset) == [h EXCEPT !.pos = offset]

\* file_handle.write(data): bytes land at the current position; a position
\* past the end leaves a gap of zero bytes.
write(h, data) ==
    LET end == h.pos + Len(data)
        newlen == Max(Len(h.data), end)
    IN  [h EXCEPT
            !.data = [i \in 1..newlen |->
                        IF i > h.pos /\ i <= end THEN data[i - h.pos]
                        ELSE IF i <= Len(h.data) THEN h.data[i]
                        ELSE 0],
            !.pos = end,
            !.writes = Append(@, <<h.pos, data>>)]

\* file_handle.close()
close(h) == [h EXCEPT !.closed = TRUE]

\* a plausible slip: the seek left out, the data written where the handle is
ApplyInstruction_NoSeek(h, offset, data) == write(h, data)

\* the loop body of _write_pe: file_handle.seek(offset); file_handle.write(data)
ApplyInstruction(h, offset, data) == write(seek(h, offset), data)

----------------------------------------------------------------------------
(* Exceptions *)

\* a plausible slip: ValueError missing from the except clause
Caught_NoValueError(exc) ==
    exc \in {"IOError", "VolatilityException", "OverflowError"}

\* the except clause of _write_pe
Caught(exc) ==
    exc \in {"IOError", "VolatilityException", "OverflowError", "ValueError"}

\* what the header parse / reconstruction can raise
ReconstructErrors == {"VolatilityException", "OverflowError", "ValueError"}

----------------------------------------------------------------------------
(* The PE image found at the base address of an address space, seen through *)
(* dos_header.reconstruct(): the instructions it yields, and the exception  *)
(* that ends the stream, if any.                                            *)

MemByte(addr) == (addr * 7 + 1) % 256

Data(start, len) == [i \in 1..len |-> MemByte(start + i - 1)]

Ranges == {r \in (0..(MaxPos - 1)) \X (1..MaxPos) : r[1] + r[2] <= MaxPos}

RECURSIVE StreamsFrom(_)
\* instruction streams whose ranges start at lo or later: increasing file
\* offsets, no two ranges overlapping
StreamsFrom(lo) ==
    {<<>>} \cup
    UNION {{<<<<r[1], Data(r[1], r[2])>>>> \o t : t \in StreamsFrom(r[1] + r[2])}
            : r \in {q \in Ranges : q[1] >= lo}}

\* the first instruction covers the header, at file offset 0
Streams == {s \in StreamsFrom(0) : s # <<>> => s[1][1] = 0}

\* every image within MaxPos bytes; a stream that yields nothing has failed
\* on the header
AllImages ==
    {[instrs |-> s, raises |-> e] :
        s \in Streams, e \in ReconstructErrors \cup {"none"}}
    \ {[instrs |-> <<>>, raises |-> "none"]}

\* a header and one section after a gap
GapImage ==
    [instrs |-> <<<<0, Data(0, 1)>>, <<2, Data(2, 1)>>>>, raises |-> "none"]

\* header magic mismatch
MalformedImage == [instrs |-> <<>>, raises |-> "ValueError"]

\* a section that cannot be read after the header was yielded
TruncatedImage == [instrs |-> <<<<0, Data(0, 2)>>>>, raises |-> "VolatilityException"]

NoImage == [instrs |-> <<>>, raises |-> "none"]

SampleImages == {GapImage, MalformedImage, TruncatedImage}

\* dos_header.reconstruct(): the generator's next step after k instructions
reconstruct(image, k) ==
    IF k < Len(image.instrs) THEN [kind |-> "yield", instr |-> image.instrs[k + 1]]
    ELSE IF image.raises # "none" THEN [kind |-> "raise", exc |-> image.raises]
    ELSE [kind |-> "stop"]

----------------------------------------------------------------------------
(* Processes and session layers *)

Offsets == {1, 2, 18}

ProcPid(offset) == IF offset = 18 THEN 3 ELSE 23

ProcName(offset) ==
    IF offset = 1 THEN "smss.exe" ELSE IF offset = 2 THEN "lsass.exe" ELSE "csrss.exe"

Proc(offset, image) ==
    [offset |-> offset, UniqueProcessId |-> ProcPid(offset),
     ImageFileName |-> ProcName(offset), image |-> image]

RECURSIVE ProcListsOf(_, _)
\* lists of at most n processes at distinct offsets, images drawn from imgs
ProcListsOf(n, imgs) ==
    IF n = 0 THEN {<<>>}
    ELSE LET shorter == ProcListsOf(n - 1, imgs)
         IN  shorter \cup
             {Append(l, Proc(o, im)) :
                l \in {s \in shorter : Len(s) = n - 1},
                o \in Offsets, im \in imgs}

DistinctOffsets(l) ==
    \A i, j \in DOMAIN l : i # j => l[i].offset # l[j].offset

ProcLists(n, imgs) == {l \in ProcListsOf(n, imgs) : DistinctOffsets(l)}

Pids == {3, 23}

PidConfigs ==
    {[given |-> FALSE, ids |-> {}]} \cup
    {[given |-> TRUE, ids |-> s] : s \in SUBSET Pids}

BaseAddrs == {16, 32}

NoLayer == [kind |-> "none", id |-> 0]

SessionName(k) == [kind |-> "session", id |-> k]

\* the layer proc.add_process_layer() returns
ProcessLayer(proc) == [kind |-> "process", id |-> proc.offset]

\* session layer lists: each candidate either maps the base address (and then
\* holds some image there) or does not
SessionLists ==
    UNION {{[k \in 1..n |->
                [name |-> SessionName(k), valid |-> f[k] # NoImage, image |-> f[k]]]
            : f \in [1..n -> SampleImages \cup {NoImage}]}
           : n \in 0..MaxSessions}

\* Modules.find_session_layer: the first layer in which base is valid, or None
find_session_layer(layers) ==
    IF \E k \in DOMAIN layers : layers[k].valid
    THEN LET k == CHOOSE i \in DOMAIN layers :
                    layers[i].valid /\ \A j \in 1..(i - 1) : ~layers[j].valid
         IN  layers[k].name
    ELSE NoLayer

\* PsList.create_pid_filter: the predicate that EXCLUDES a process
create_pid_filter(pid, proc) ==
    IF Truthy(pid) THEN proc.UniqueProcessId \notin pid.ids ELSE FALSE

\* PsList.list_processes with filter_func
list_processes(all, pid) ==
    SelectSeq(all, LAMBDA p : ~create_pid_filter(pid, p))

----------------------------------------------------------------------------
(* Rows and call records *)

\* the arguments of one _write_pe call (pe_table_name is the same for all)
Call(layer_name, proc_offset, pid) ==
    [layer |-> layer_name, proc_offset |-> proc_offset, pid |-> pid,
     base |-> config.base]

\* a plausible slip: the process offset yielded in place of the pid
KernelRow_Offset(file_output) == <<0, "Kernel", file_output>>

\* _dump_kernel: yield system_pid, "Kernel", file_output
KernelRow(file_output) == <<system_pid, "Kernel", file_output>>

\* _dump_processes: yield pid, proc_name, file_output
ProcessRow(pid, proc_name, file_output) == <<pid, proc_name, file_output>>

\* _generator: yield (0, (pid, proc_name, file_output))
GeneratorRow(row) == <<0, row>>

\* the locals of a running _write_pe call and of the loop body that made it;
\* h is the index of file_handle in handles (0: not opened), k the number of
\* instructions reconstruct() has yielded, instr the one being applied
NoFrame ==
    [layer |-> NoLayer, proc_offset |-> 0, pid |-> 0, proc_name |-> "",
     h |-> 0, k |-> 0, instr |-> <<>>]

Frame(layer_name, proc_offset, pid, proc_name) ==
    [layer |-> layer_name, proc_offset |-> proc_offset, pid |-> pid,
     proc_name |-> proc_name, h |-> 0, k |-> 0, instr |-> <<>>]

\* what context.object(..., offset=base, layer_name=layer) finds: the image of
\* the process or session the layer belongs to; a layer that does not map
\* the base address cannot be read
ImageAt(layer) ==
    IF layer.kind = "process" /\ \E i \in DOMAIN procs : procs[i].offset = layer.id
    THEN procs[CHOOSE i \in DOMAIN procs : procs[i].offset = layer.id].image
    ELSE IF layer.kind = "session" /\ layer.id \in DOMAIN session_layers
              /\ session_layers[layer.id].valid
    THEN session_layers[layer.id].image
    ELSE [instrs |-> <<>>, raises |-> "VolatilityException"]

----------------------------------------------------------------------------
(* Initial states: a configuration and a memory image.  Three families of   *)
(* inputs: kernel-module runs, process runs over lists of processes holding *)
(* representative images, and single-process runs over every image.         *)

InitRest ==
    /\ pc = "start"
    /\ method = "none"
    /\ session_layers = <<>>
    /\ enumerated = [sessions |-> FALSE, processes |-> FALSE]
    /\ plist = <<>>
    /\ idx = 1
    /\ cur = NoFrame
    /\ handles = <<>>
    /\ attempts = <<>>
    /\ returns = <<>>
    /\ results = <<>>
    /\ log = [error |-> 0, warning |-> 0, debug |-> 0]

InitKernel ==
    /\ config \in [kernel_module : {TRUE}, pid : PidConfigs, base : BaseAddrs]
    /\ procs \in ProcLists(1, {GapImage})
    /\ InitRest

InitProcesses ==
    /\ config \in [kernel_module : {FALSE}, pid : PidConfigs, base : BaseAddrs]
    /\ procs \in ProcLists(MaxProcs, SampleImages)
    /\ InitRest

InitSingle ==
    /\ config \in [kernel_module : {FALSE},
                   pid : {[given |-> TRUE, ids |-> {23}]}, base : BaseAddrs]
    /\ procs \in {<<Proc(1, im)>> : im \in AllImages}
    /\ InitRest

Init == InitKernel \/ InitProcesses \/ InitSingle

----------------------------------------------------------------------------
(* _generator *)

\* a plausible slip: the both-set check left out
BothSet_Never(cfg) == FALSE

\* if self.config["kernel_module"] and self.config["pid"]
BothSet(cfg) == cfg.kernel_module /\ Truthy(cfg.pid)

\* a plausible slip: the neither-set check left out
NeitherSet_Never(cfg) == FALSE

\* if not self.config["kernel_module"] and not self.config["pid"]
NeitherSet(cfg) == ~cfg.kernel_module /\ ~Truthy(cfg.pid)

\* the first next(): either check fails, vollog.error and return
GeneratorError ==
    /\ pc = "start"
    /\ BothSet(config) \/ NeitherSet(config)
    /\ log' = [log EXCEPT !.error = @ + 1]
    /\ pc' = "done"
    /\ UNCHANGED <<config, procs, method, session_layers, enumerated, plist,
                   idx, cur, handles, attempts, returns, results>>

\* kernel_module set: get_session_layers, method = self._dump_kernel
GeneratorKernel ==
    /\ pc = "start"
    /\ ~BothSet(config) /\ ~NeitherSet(config)
    /\ config.kernel_module
    /\ \E layers \in SessionLists : session_layers' = layers
    /\ enumerated' = [enumerated EXCEPT !.sessions = TRUE]
    /\ method' = "kernel"
    /\ pc' = "dump_kernel"
    /\ UNCHANGED <<config, procs, plist, idx, cur, handles, attempts, returns,
                   results, log>>

\* otherwise: session_layers = None, method = self._dump_processes
GeneratorProcesses ==
    /\ pc = "start"
    /\ ~BothSet(config) /\ ~NeitherSet(config)
    /\ ~config.kernel_module
    /\ method' = "processes"
    /\ pc' = "dump_processes"
    /\ UNCHANGED <<config, procs, session_layers, enumerated, plist, idx, cur,
                   handles, attempts, returns, results, log>>

----------------------------------------------------------------------------
(* _write_pe returning to its caller, and the caller's yield *)

\* the row the running method yields for file_output
YieldedRow(file_output) ==
    GeneratorRow(IF method = "kernel" THEN KernelRow(file_output)
                 ELSE ProcessRow(cur.pid, cur.proc_name, file_output))

\* where the method goes on when it does not yield, or is resumed
Continue == IF method = "kernel" THEN "done" ELSE "loop"

\* return file_output; the caller yields a row `if file_output`
Return(file_output) ==
    /\ returns' = Append(returns, file_output)
    /\ cur' = NoFrame
    /\ IF file_output # None
       THEN results' = Append(results, YieldedRow(file_output)) /\ pc' = "yield"
       ELSE results' = results /\ pc' = Continue

\* an exception inside the try block: vollog.debug and return None when the
\* except clause names it, otherwise it leaves the generator
Raise(exc) ==
    IF Caught(exc)
    THEN log' = [log EXCEPT !.debug = @ + 1] /\ Return(None)
    ELSE /\ pc' = "raised"
         /\ UNCHANGED <<log, returns, cur, results>>

----------------------------------------------------------------------------
(* _dump_kernel *)

\* a plausible slip: the result of the search not tested
IsFound_Always(session_layer_name) == TRUE

\* if session_layer_name
IsFound(session_layer_name) == session_layer_name # NoLayer

DumpKernel ==
    /\ pc = "dump_kernel"
    /\ LET session_layer_name == find_session_layer(session_layers)
       IN  IF IsFound(session_layer_name)
           THEN /\ attempts' = Append(attempts, Call(session_layer_name, 0, system_pid))
                /\ cur' = Frame(session_layer_name, 0, system_pid, "Kernel")
                /\ pc' = "open"
                /\ log' = log
           ELSE /\ log' = [log EXCEPT !.warning = @ + 1]
                /\ pc' = "done"
                /\ UNCHANGED <<attempts, cur>>
    /\ UNCHANGED <<config, procs, method, session_layers, enumerated, plist,
                   idx, handles, returns, results>>

----------------------------------------------------------------------------
(* _dump_processes *)

\* a plausible slip: the loop does not move on to the next process
Advance_Stuck(i) == i

\* the for loop takes the next process list_processes yields
Advance(i) == i + 1

\* filter_func = create_pid_filter(self.config.get("pid", None));
\* list_processes(..., filter_func=filter_func)
DumpProcesses ==
    /\ pc = "dump_processes"
    /\ plist' = list_processes(procs, config.pid)
    /\ enumerated' = [enumerated EXCEPT !.processes = TRUE]
    /\ idx' = 1
    /\ pc' = "loop"
    /\ UNCHANGED <<config, procs, method, session_layers, cur, handles,
                   attempts, returns, results, log>>

\* the loop body up to the call of _write_pe
LoopNext ==
    /\ pc = "loop"
    /\ idx <= Len(plist)
    /\ LET proc == plist[idx]
           pid == proc.UniqueProcessId
           proc_name == proc.ImageFileName
           proc_layer_name == ProcessLayer(proc)
       IN  /\ attempts' = Append(attempts, Call(proc_layer_name, proc.offset, pid))
           /\ cur' = Frame(proc_layer_name, proc.offset, pid, proc_name)
    /\ idx' = Advance(idx)
    /\ pc' = "open"
    /\ UNCHANGED <<config, procs, method, session_layers, enumerated, plist,
                   handles, returns, results, log>>

\* list_processes is exhausted: the generator ends
LoopEnd ==
    /\ pc = "loop"
    /\ idx > Len(plist)
    /\ pc' = "done"
    /\ UNCHANGED <<config, procs, method, session_layers, enumerated, plist,
                   idx, cur, handles, attempts, returns, results, log>>

----------------------------------------------------------------------------
(* _write_pe *)

\* file_handle = self.open("PE....dmp")
OpenOk ==
    /\ pc = "open"
    /\ handles' = Append(handles,
                         open(OutputName(cur.proc_offset, cur.pid, config.base)))
    /\ cur' = [cur EXCEPT !.h = Len(handles) + 1]
    /\ pc' = "reconstruct"
    /\ UNCHANGED <<config, procs, method, session_layers, enumerated, plist,
                   idx, attempts, returns, results, log>>

\* self.open raises IOError
OpenFails ==
    /\ pc = "open"
    /\ Raise("IOError")
    /\ UNCHANGED <<config, procs, method, session_layers, enumerated, plist,
                   idx, handles, attempts>>

\* for offset, data in dos_header.reconstruct(): the next instruction
ReconstructYield ==
    /\ pc = "reconstruct"
    /\ LET step == reconstruct(ImageAt(cur.layer), cur.k)
       IN  /\ step.kind = "yield"
           /\ cur' = [cur EXCEPT !.k = @ + 1, !.instr = step.instr]
    /\ pc' = "write"
    /\ UNCHANGED <<config, procs, method, session_layers, enumerated, plist,
                   idx, handles, attempts, returns, results, log>>

\* the header parse or the reconstruction raises
ReconstructRaise ==
    /\ pc = "reconstruct"
    /\ LET step == reconstruct(ImageAt(cur.layer), cur.k)
       IN  /\ step.kind = "raise"
           /\ Raise(step.exc)
    /\ UNCHANGED <<config, procs, method, session_layers, enumerated, plist,
                   idx, handles, attempts>>

\* the instruction stream is exhausted
ReconstructStop ==
    /\ pc = "reconstruct"
    /\ reconstruct(ImageAt(cur.layer), cur.k).kind = "stop"
    /\ pc' = "close"
    /\ UNCHANGED <<config, procs, method, session_layers, enumerated, plist,
                   idx, cur, handles, attempts, returns, results, log>>

\* file_handle.seek(offset); file_handle.write(data)
WriteOk ==
    /\ pc = "write"
    /\ handles' = [handles EXCEPT
                     ![cur.h] = ApplyInstruction(@, cur.instr[1], cur.instr[2])]
    /\ cur' = [cur EXCEPT !.instr = <<>>]
    /\ pc' = "reconstruct"
    /\ UNCHANGED <<config, procs, method, session_layers, enumerated, plist,
                   idx, attempts, returns, results, log>>

\* file_handle.write raises IOError after the seek
WriteFails ==
    /\ pc = "write"
    /\ handles' = [handles EXCEPT ![cur.h] = seek(@, cur.instr[1])]
    /\ Raise("IOError")
    /\ UNCHANGED <<config, procs, method, session_layers, enumerated, plist,
                   idx, attempts>>

\* file_handle.close(); return file_handle.preferred_filename
Close ==
    /\ pc = "close"
    /\ handles' = [handles EXCEPT ![cur.h] = close(@)]
    /\ Return(handles[cur.h].preferred_filename)
    /\ UNCHANGED <<config, procs, method, session_layers, enumerated, plist,
                   idx, attempts, log>>

----------------------------------------------------------------------------
(* The consumer of the generator *)

\* next() on the suspended generator
Resume ==
    /\ pc = "yield"
    /\ pc' = Continue
    /\ UNCHANGED <<config, procs, method, session_layers, enumerated, plist,
                   idx, cur, handles, attempts, returns, results, log>>

\* the caller drops the generator, before the first next() or at a yield
Abandon ==
    /\ pc \in {"start", "yield"}
    /\ pc' = "abandoned"
    /\ UNCHANGED <<config, procs, method, session_layers, enumerated, plist,
                   idx, cur, handles, attempts, returns, results, log>>

Next ==
    \/ GeneratorError
    \/ GeneratorKernel
    \/ GeneratorProcesses
    \/ DumpKernel
    \/ DumpProcesses
    \/ LoopNext
    \/ LoopEnd
    \/ OpenOk
    \/ OpenFails
    \/ ReconstructYield
    \/ ReconstructRaise
    \/ ReconstructStop
    \/ WriteOk
    \/ WriteFails
    \/ Close
    \/ Resume
    \/ Abandon

Spec == Init /\ [][Next]_vars

----------------------------------------------------------------------------
(* What the claims are stated over *)

Finished == pc \in {"done", "abandoned", "raised"}

BothOrNeither == config.kernel_module = Truthy(config.pid)

\* the live processes whose pid is in the configured filter, in list order
Matching == SelectSeq(procs, LAMBDA p : p.UniqueProcessId \in config.pid.ids)

\* the _write_pe call a process target asks for
ProcessCall(p) ==
    [layer |-> [kind |-> "process", id |-> p.offset], proc_offset |-> p.offset,
     pid |-> p.UniqueProcessId, base |-> config.base]

CallsOf(ps) == [i \in DOMAIN ps |-> ProcessCall(ps[i])]

IsPrefix(s, t) == Len(s) <= Len(t) /\ \A i \in DOMAIN s : s[i] = t[i]

AnyValid == \E k \in DOMAIN session_layers : session_layers[k].valid

\* index of the first session candidate that maps the base address
FirstValid ==
    CHOOSE k \in DOMAIN session_layers :
        session_layers[k].valid /\ \A j \in 1..(k - 1) : ~session_layers[j].valid

\* the targets the resolver yields in this run, in order
Targets ==
    IF method = "processes"
    THEN [i \in DOMAIN Matching |->
            [identity |-> Matching[i].UniqueProcessId,
             label |-> Matching[i].ImageFileName,
             call |-> ProcessCall(Matching[i])]]
    ELSE IF method = "kernel" /\ AnyValid
    THEN <<[identity |-> 4, label |-> "Kernel",
            call |-> [layer |-> session_layers[FirstValid].name,
                      proc_offset |-> 0, pid |-> 4, base |-> config.base]]>>
    ELSE <<>>

RECURSIVE ExpectedRows(_)
\* the rows of the first n targets: one per target whose dump returned a
\* file name, in target order
ExpectedRows(n) ==
    IF n = 0 THEN <<>>
    ELSE IF returns[n] # None
         THEN Append(ExpectedRows(n - 1),
                     <<0, <<Targets[n].identity, Targets[n].label, returns[n]>>>>)
         ELSE ExpectedRows(n - 1)

FileOutput(row) == row[2][3]

\* byte positions (1-based) an applied write covers
Covers(w, p) == p > w[1] /\ p <= w[1] + Len(w[2])

RECURSIVE EndOf(_)
EndOf(ws) ==
    IF ws = <<>> THEN 0
    ELSE Max(EndOf(SubSeq(ws, 1, Len(ws) - 1)), ws[Len(ws)][1] + Len(ws[Len(ws)][2]))

----------------------------------------------------------------------------
(* Claims *)

\* C1: when kernel_module and a non-empty pid filter are both given, or
\* neither is, the run is a configuration error reported before any work: no
\* row, no session layer or process enumeration, no _write_pe call and no
\* output handle, and exactly one error is logged when the run ends.
C1_ConfigErrorBeforeWork ==
    BothOrNeither =>
        /\ pc \in {"start", "done", "abandoned"}
        /\ results = <<>>
        /\ ~enumerated.sessions /\ ~enumerated.processes
        /\ attempts = <<>>
        /\ handles = <<>>
        /\ log.error = (IF pc = "done" THEN 1 ELSE 0)

C1_Witness ==
    /\ config.kernel_module /\ Truthy(config.pid)
    /\ procs # <<>>
    /\ pc = "done"
    /\ log.error = 1

\* C2 as stated: in process mode the filter is optional; with no filter
\* supplied every live process is a target (one _write_pe attempt each, at
\* the configured base), with a filter only the processes whose pid is in it.
C2_FilterOptional ==
    (~config.kernel_module /\ pc = "done") =>
        attempts = CallsOf(IF config.pid.given THEN Matching ELSE procs)

\* C2 amended: in process mode a non-empty filter is required; with one,
\* exactly the live processes whose pid is in it are targets, once each, in
\* order, at the configured base; with none (absent or empty) no process is
\* enumerated or attempted.
C2_FilterRequired ==
    ~config.kernel_module =>
        IF Truthy(config.pid)
        THEN /\ IsPrefix(attempts, CallsOf(Matching))
             /\ pc = "done" => attempts = CallsOf(Matching)
        ELSE attempts = <<>> /\ ~enumerated.processes

C2_Witness ==
    /\ ~config.kernel_module /\ Truthy(config.pid)
    /\ pc = "done"
    /\ attempts # <<>>
    /\ Len(attempts) < Len(procs)

\* C3: in process mode no per-target failure raises out of the generator or
\* ends it early: when the run ends every matching process has been attempted
\* and the rows are exactly those of the targets whose dump succeeded.
C3_FailureIsolation ==
    /\ pc # "raised"
    /\ (method = "processes" /\ pc = "done") =>
            /\ Len(attempts) = Len(Targets)
            /\ Len(returns) = Len(Targets)
            /\ \A i \in DOMAIN Targets : attempts[i] = Targets[i].call
            /\ results = ExpectedRows(Len(Targets))

C3_Witness ==
    /\ method = "processes" /\ pc = "done"
    /\ Len(returns) = 2 /\ returns[1] = None /\ returns[2] # None
    /\ \E i \in DOMAIN handles : ~handles[i].closed /\ handles[i].writes # <<>>
    /\ Len(results) = 1

\* C4: at every point the calls of _write_pe are a prefix of the resolver's
\* targets (each target attempted at most once, in enumeration order) and the
\* rows handed out are, in order, those of the attempted targets whose dump
\* returned a file name: no row reordered, duplicated or made up.
C4_ResultOrder ==
    /\ Len(attempts) <= Len(Targets)
    /\ \A i \in DOMAIN attempts : attempts[i] = Targets[i].call
    /\ Len(returns) <= Len(attempts)
    /\ results = ExpectedRows(Len(returns))

C4_Witness ==
    /\ method = "processes" /\ pc = "done"
    /\ Len(procs) = 2 /\ procs[1].offset = 18 /\ procs[2].offset = 1
    /\ Len(results) = 2
    /\ results[1][2][1] = 3 /\ results[2][2][1] = 23

\* C5: in kernel-module mode the only dump is taken from the first session
\* layer, in enumeration order, that maps the base address; a successful dump
\* gives exactly the row (4, "Kernel", file), and there is never a second row.
C5_KernelFirstMatch ==
    method = "kernel" =>
        /\ Len(attempts) <= 1 /\ Len(handles) <= 1 /\ Len(results) <= 1
        /\ attempts # <<>> =>
              /\ AnyValid
              /\ attempts[1].layer = session_layers[FirstValid].name
              /\ \A i \in DOMAIN handles :
                    IsPrefix(handles[i].writes,
                             session_layers[FirstValid].image.instrs)
        /\ results =
              IF returns # <<>> /\ returns[1] # None
              THEN <<(<<0, <<4, "Kernel", returns[1]>>>>)>>
              ELSE <<>>

C5_Witness ==
    /\ method = "kernel" /\ pc = "done"
    /\ Len(session_layers) = 3
    /\ ~session_layers[1].valid /\ ~session_layers[2].valid
    /\ session_layers[3].valid
    /\ Len(results) = 1
    /\ results[1][2][1] = 4 /\ results[1][2][2] = "Kernel"

\* C6: in kernel-module mode, when no session candidate maps the base address
\* the run ends normally with no row, exactly one warning, no output handle
\* and no _write_pe call.
C6_NoSessionLayer ==
    (method = "kernel" /\ ~AnyValid) =>
        /\ pc \in {"dump_kernel", "done"}
        /\ results = <<>>
        /\ handles = <<>>
        /\ attempts = <<>>
        /\ log.error = 0 /\ log.debug = 0
        /\ log.warning = (IF pc = "done" THEN 1 ELSE 0)

C6_Witness ==
    /\ method = "kernel" /\ ~AnyValid
    /\ Len(session_layers) >= 2
    /\ pc = "done"
    /\ log.warning = 1

\* C7 as stated: after any run the opened output handles correspond one to
\* one to the emitted rows and every opened handle has been closed; a failed
\* target leaves no opened, unclosed or partially written output.
C7_OneOutputPerRow ==
    Finished =>
        /\ Len(handles) = Len(results)
        /\ \A i \in DOMAIN handles :
              /\ handles[i].closed
              /\ i \in DOMAIN results
                    => FileOutput(results[i]) = handles[i].preferred_filename

\* C8: the requested output name is OutputName(target offset, pid, base), and
\* within one run no two targets request the same name, so no two rows carry
\* the same output reference.
C8_DistinctNames ==
    /\ \A i, j \in DOMAIN attempts :
          i # j => OutputName(attempts[i].proc_offset, attempts[i].pid, attempts[i].base)
                   # OutputName(attempts[j].proc_offset, attempts[j].pid, attempts[j].base)
    /\ \A i, j \in DOMAIN handles :
          i # j => handles[i].preferred_filename # handles[j].preferred_filename
    /\ \A i \in DOMAIN handles :
          \E j \in DOMAIN attempts :
              handles[i].preferred_filename =
                  OutputName(attempts[j].proc_offset, attempts[j].pid, attempts[j].base)
    /\ \A i, j \in DOMAIN results :
          i # j => FileOutput(results[i]) # FileOutput(results[j])

C8_Witness ==
    /\ Len(results) = 2
    /\ results[1][2][1] = results[2][2][1]
    /\ attempts[1].base = attempts[2].base
    /\ FileOutput(results[1]) # FileOutput(results[2])

\* C9 as stated: a row is emitted only after its target's handle has had every
\* instruction applied and been closed, the next target is not started before
\* the row is handed over, and so at any yield every reported target has a
\* complete closed output and no target's output is left partially written.
C9_CompleteAtYield ==
    pc = "yield" =>
        /\ cur = NoFrame
        /\ \A r \in DOMAIN results :
              \E i \in DOMAIN handles :
                  /\ handles[i].preferred_filename = FileOutput(results[r])
                  /\ handles[i].closed
        /\ \A i \in DOMAIN handles : handles[i].closed

\* C10: the writes a handle has served are exactly the instructions
\* reconstruct() has yielded so far, in order and at their file offsets; the
\* handle's content holds each instruction's bytes at its range, is zero
\* everywhere else, and ends where the furthest instruction ends.
C10_WritesApplied ==
    /\ cur.h # 0 =>
          handles[cur.h].writes =
              SubSeq(ImageAt(cur.layer).instrs, 1,
                     IF pc = "write" THEN cur.k - 1 ELSE cur.k)
    /\ pc = "close" => cur.k = Len(ImageAt(cur.layer).instrs)
    /\ \A i \in DOMAIN handles :
          LET h == handles[i]
          IN  /\ Len(h.data) = EndOf(h.writes)
              /\ \A w \in DOMAIN h.writes :
                    SubSeq(h.data, h.writes[w][1] + 1,
                           h.writes[w][1] + Len(h.writes[w][2])) = h.writes[w][2]
              /\ \A p \in DOMAIN h.data :
                    (\A w \in DOMAIN h.writes : ~Covers(h.writes[w], p))
                        => h.data[p] = 0

C10_Witness ==
    \E i \in DOMAIN handles :
        /\ handles[i].closed
        /\ Len(handles[i].writes) = 2
        /\ Len(handles[i].data) = 3
        /\ handles[i].data[2] = 0
        /\ handles[i].data[3] # 0

====
